---------------------------- MODULE Spec2Model ----------------------------
(***************************************************************************)
(* A model of goimpl (src/goimpl.go): Generate, handleExisting, the        *)
(* signature comparator (Method.Diff / diff) and the argument namer        *)
(* (GenOpts.Method / GenOpts.Short).                                       *)
(*                                                                         *)
(* Go strings on which the code works rune by rune (type names, ImplName)  *)
(* are sequences of one-character strings; Str turns such a sequence into  *)
(* the text the code would print.  Texts that the code only concatenates   *)
(* (diffs, comments, generated source) are TLA+ strings.                   *)
(***************************************************************************)
EXTENDS Naturals, Sequences, FiniteSets, TLC

VARIABLES
    opts,      \* the *GenOpts record the caller passes to Generate
    opts0,     \* the caller's record as it was before the first call
    pc,        \* position inside Generate, or "idle" / "returned"
    buf,       \* bytes.Buffer filled by tm.Execute (goimpl.go:48-49)
    sink,      \* sequence of byte strings written to out
    err,       \* error returned by the current call ("" for nil)
    errKind,   \* which return statement produced err
    calls,     \* number of Generate calls started on this record
    hist,      \* outcome of each finished call
    env,       \* outcomes of the external collaborators for this run
    dHave,     \* comparator run: the existing ("have") method
    dWant,     \* comparator run: the required ("want") method
    dOut,      \* comparator run: result of have.Diff(want)
    dPc,       \* comparator run: "ready" / "done"
    nImpl,     \* namer run: opts.ImplName
    nFt,       \* namer run: the reflect.Method being populated
    nCur,      \* namer run: cur, the names in scope (goimpl.go:195)
    nNames,    \* namer run: ArgName of each parameter named so far
    nPc        \* namer run: "naming" / "done"

vars == <<opts, opts0, pc, buf, sink, err, errKind, calls, hist, env,
          dHave, dWant, dOut, dPc, nImpl, nFt, nCur, nNames, nPc>>

genVars == <<opts, opts0, pc, buf, sink, err, errKind, calls, hist, env>>
diffVars == <<dHave, dWant, dOut, dPc>>
namerVars == <<nImpl, nFt, nCur, nNames, nPc>>

---------------------------------------------------------------------------
(* Runes and strings.                                                      *)

LowerCase == <<"a","b","c","d","e","f","g","h","i","j","k","l","m",
               "n","o","p","q","r","s","t","u","v","w","x","y","z">>
UpperCase == <<"A","B","C","D","E","F","G","H","I","J","K","L","M",
               "N","O","P","Q","R","S","T","U","V","W","X","Y","Z">>

\* unicode.IsLetter, on the runes the model uses.
IsLetter(r) == \E i \in DOMAIN LowerCase : r = LowerCase[i] \/ r = UpperCase[i]

\* unicode.ToLower.
ToLower(r) ==
    IF \E i \in DOMAIN UpperCase : r = UpperCase[i]
    THEN LowerCase[CHOOSE i \in DOMAIN UpperCase : r = UpperCase[i]]
    ELSE r

\* string(rs): the text of a rune sequence.
RECURSIVE Str(_)
Str(rs) == IF rs = <<>> THEN "" ELSE Head(rs) \o Str(Tail(rs))

\* strings.Split(s, "."): never empty, Split("", ".") is one empty part.
RECURSIVE SplitDot(_)
SplitDot(s) ==
    IF \A i \in DOMAIN s : s[i] # "."
    THEN <<s>>
    ELSE LET k == CHOOSE i \in DOMAIN s :
                      s[i] = "." /\ \A j \in 1..(i-1) : s[j] # "."
         IN  <<SubSeq(s, 1, k-1)>> \o SplitDot(SubSeq(s, k+1, Len(s)))

\* strings.Join(ds, sep).
RECURSIVE Join(_, _)
Join(ds, sep) ==
    IF ds = <<>> THEN ""
    ELSE IF Len(ds) = 1 THEN ds[1]
    ELSE ds[1] \o sep \o Join(Tail(ds), sep)

\* The grave accent of goimpl.go:168.  A TLA+ string literal cannot hold
\* that character; the model writes an apostrophe in its place, as
\* goimpl_test.go:72 does.
Backtick == "'"

---------------------------------------------------------------------------
(* reflect.Type, as far as the code looks at it.  A type is a base type    *)
(* under a sequence of pointer/slice/chan/array constructors:              *)
(*   wraps   outermost first, each [k, n, dir]: k is "ptr", "slice",       *)
(*           "chan" or "array", n the length of an array, dir what         *)
(*           ChanDir().String() prints                                     *)
(*   named   whether the base has a Name() (a declared or builtin type)    *)
(*   pkgPath the base's PkgPath() ("" for builtin and unnamed types)       *)
(*   pkg     the package name String() prints                              *)
(*   name    Name() of a named base, String() of an unnamed one            *)
(*   cap     what the whole type converts to: "error", "ctx", "both",      *)
(*           "none"                                                        *)
(*   methods the exported method set, sorted by name                       *)
(*   comp    "map" or "func" for a base of that kind, else "base"          *)
(*   parts   of a map its key and element; of a func its parameters, then  *)
(*           its results (variadic funcs are not modelled)                 *)
(*   nin     NumIn() of a func                                             *)

Wrap(k) == [k |-> k, n |-> 0, dir |-> ""]

Ty(wraps, named, pkgPath, pkg, name, cap) ==
    [wraps |-> [i \in DOMAIN wraps |-> Wrap(wraps[i])],
     named |-> named, pkgPath |-> pkgPath, pkg |-> pkg,
     name |-> name, cap |-> cap, methods |-> <<>>,
     comp |-> "base", parts |-> <<>>, nin |-> 0]

\* A type with one more constructor around t.
Wrapped(w, t) ==
    [t EXCEPT !.wraps = <<w>> \o @, !.cap = "none", !.methods = <<>>]

\* chan t, <-chan t, chan<- t and [n]t.
ChanOf(dir, t) == Wrapped([k |-> "chan", n |-> 0, dir |-> dir], t)
ArrayOf(n, t) == Wrapped([k |-> "array", n |-> n, dir |-> ""], t)

\* map[k]e and func(ins) outs, unnamed.
MapOf(k, e) ==
    [Ty(<<>>, FALSE, "", <<>>, <<>>, "none") EXCEPT
        !.comp = "map", !.parts = <<k, e>>]
FuncOf(ins, outs) ==
    [Ty(<<>>, FALSE, "", <<>>, <<>>, "none") EXCEPT
        !.comp = "func", !.parts = ins \o outs, !.nin = Len(ins)]

Kind(t) == IF t.wraps = <<>> THEN t.comp ELSE Head(t.wraps).k

\* t.Elem() of a pointer, slice, chan or array type.
Elem(t) == [t EXCEPT !.wraps = Tail(@), !.cap = "none", !.methods = <<>>]

\* t.Key() and t.Elem() of a map.
MapKey(t) == t.parts[1]
MapElem(t) == t.parts[2]

PkgPath(t) == IF t.wraps = <<>> /\ t.named THEN t.pkgPath ELSE ""

TypeName(t) == IF t.wraps = <<>> /\ t.named THEN t.name ELSE <<>>

Digits == <<"0","1","2","3","4","5","6","7","8","9">>

\* The decimal digits of n, as runes.
RECURSIVE NatRunes(_)
NatRunes(n) ==
    IF n < 10 THEN <<Digits[n + 1]>>
    ELSE NatRunes(n \div 10) \o <<Digits[(n % 10) + 1]>>

\* The rune sequences ds, with ", " between them.
RECURSIVE CommaRunes(_)
CommaRunes(ds) ==
    IF ds = <<>> THEN <<>>
    ELSE IF Len(ds) = 1 THEN ds[1]
    ELSE ds[1] \o <<",", " ">> \o CommaRunes(Tail(ds))

\* The results in the String() of a func: none, one, or a list in parentheses.
ResultRunes(ds) ==
    IF ds = <<>> THEN <<>>
    ELSE IF Len(ds) = 1 THEN <<" ">> \o ds[1]
    ELSE <<" ", "(">> \o CommaRunes(ds) \o <<")">>

\* The String() of a chan of direction dir whose element prints as e;
\* recv says that the element is itself a receive-only chan.
ChanRunes(dir, e, recv) ==
    IF dir = "chan" THEN <<"c","h","a","n"," ">>
                         \o (IF recv THEN <<"(">> \o e \o <<")">> ELSE e)
    ELSE IF dir = "<-chan" THEN <<"<","-","c","h","a","n"," ">> \o e
    ELSE <<"c","h","a","n","<","-"," ">> \o e

\* t.String(), as runes.
RECURSIVE TypeString(_)
TypeString(t) ==
    IF Kind(t) = "ptr" THEN <<"*">> \o TypeString(Elem(t))
    ELSE IF Kind(t) = "slice" THEN <<"[", "]">> \o TypeString(Elem(t))
    ELSE IF Kind(t) = "array"
    THEN <<"[">> \o NatRunes(Head(t.wraps).n) \o <<"]">> \o TypeString(Elem(t))
    ELSE IF Kind(t) = "chan"
    THEN ChanRunes(Head(t.wraps).dir, TypeString(Elem(t)),
                   Kind(Elem(t)) = "chan" /\ Head(Elem(t).wraps).dir = "<-chan")
    ELSE IF t.named /\ t.pkgPath # "" THEN t.pkg \o <<".">> \o t.name
    ELSE IF t.named THEN t.name
    ELSE IF t.comp = "map"
    THEN <<"m","a","p","[">> \o TypeString(MapKey(t)) \o <<"]">>
             \o TypeString(MapElem(t))
    ELSE IF t.comp = "func"
    THEN <<"f","u","n","c","(">>
             \o CommaRunes([i \in 1..t.nin |-> TypeString(t.parts[i])])
             \o <<")">>
             \o ResultRunes([i \in 1..(Len(t.parts) - t.nin) |->
                                TypeString(t.parts[t.nin + i])])
    ELSE t.name

ConvertibleToError(t) == t.cap \in {"error", "both"}
ConvertibleToCtx(t) == t.cap \in {"ctx", "both"}

\* goimpl.go:342-345: the parts of t.String() split at the dots.
PkgAndNameOfParts(parts) ==
    <<parts[1], IF Len(parts) > 1 THEN parts[2] ELSE <<>>>>

\* packageAndName (goimpl.go:333-346): <<pkgName, name>>.
packageAndName(t) ==
    IF PkgPath(t) = "" THEN <<<<>>, TypeString(t)>>
    ELSE PkgAndNameOfParts(SplitDot(TypeString(t)))

---------------------------------------------------------------------------
(* The argument namer: Clean, First, lowerName, Short, Method.  An         *)
(* operator that needs a value more than once takes it as a parameter.     *)

\* GenOpts.Clean (goimpl.go:220-230): keeps only letters.
Clean(s) == SelectSeq(s, IsLetter)

\* goimpl.go:284-289: the first letter of the last part, in lowercase.
FirstLetter(last) ==
    IF \E i \in DOMAIN last : IsLetter(last[i])
    THEN ToLower(last[CHOOSE i \in DOMAIN last :
                        /\ IsLetter(last[i])
                        /\ \A j \in 1..(i-1) : ~IsLetter(last[j])])
    ELSE "z"

\* goimpl.go:281-289, on the parts of s.
FirstOfParts(parts) ==
    IF Len(parts) = 0 THEN "u" ELSE FirstLetter(parts[Len(parts)])

\* GenOpts.First (goimpl.go:279-290): first letter of the last dot-separated
\* part of s, in lowercase.
First(s) == FirstOfParts(SplitDot(s))

\* goimpl.go:271-275: <<lowercased letters, letters>>.
LowerOfClean(clean) == << [i \in DOMAIN clean |-> ToLower(clean[i])], clean >>

\* goimpl.go:267-275, on the parts of s.
LowerOfParts(parts) ==
    IF Len(parts) = 0 THEN << <<"u">>, <<>> >>
    ELSE LowerOfClean(Clean(parts[Len(parts)]))

\* GenOpts.lowerName (goimpl.go:265-276): <<lowercased letters, letters>> of
\* the last dot-separated part of s.
lowerName(s) == LowerOfParts(SplitDot(s))

\* The loop of goimpl.go:234-237: strip pointers and slices.
RECURSIVE StripPtrSlice(_)
StripPtrSlice(tt) ==
    IF Kind(tt) = "ptr" \/ Kind(tt) = "slice" THEN StripPtrSlice(Elem(tt)) ELSE tt

\* goimpl.go:247-251: the default case, with pkg the package, ln the
\* result of lowerName(name) and f the first letter.
VeryShort(pkg, ln, f) ==
    IF Len(ln[1]) <= 3 /\ ln[1] # ln[2] /\ ln[1] # pkg THEN Str(ln[1]) ELSE f

\* goimpl.go:239-252, with pn the result of packageAndName(tt).
CandidateOf(t, pn) ==
    IF ConvertibleToError(t) THEN "err"
    ELSE IF ConvertibleToCtx(t) THEN "ctx"
    ELSE VeryShort(pn[1], lowerName(pn[2]), First(pn[2]))

\* goimpl.go:234-252: the candidate name f for an argument of type t.
Candidate(t) == CandidateOf(t, packageAndName(StripPtrSlice(t)))

\* goimpl.go:255-262: the loop, at name with counter c.
RECURSIVE UniqueName(_, _, _, _)
UniqueName(f, name, c, cur) ==
    IF name \notin cur THEN name
    ELSE UniqueName(f, f \o ToString(c), c + 1, cur)

\* UniqueFrom with the counter started one too high.
UniqueFromTwo(f, cur) == UniqueName(f, f, 2, cur)

\* goimpl.go:254-262: f, then f1, f2, ... until the name is not in cur.
UniqueFrom(f, cur) == UniqueName(f, f, 1, cur)

\* Reserve that returns the name without adding it to cur.
ReserveNothing(name, cur) == [name |-> name, cur |-> cur]

\* goimpl.go:257-259: the name is added to cur and returned.
Reserve(name, cur) == [name |-> name, cur |-> cur \cup {name}]

\* GenOpts.Short (goimpl.go:233-263): the name, and cur with the name added.
Short(t, cur) == Reserve(UniqueFrom(Candidate(t), cur), cur)

\* goimpl.go:204: the Arg of type t named s.name, followed by the rest.
ConsArg(t, last, s, rest) ==
    [args |-> << [Type |-> t, ArgName |-> s.name,
                  Sep |-> IF last THEN "" ELSE ", "] >> \o rest.args,
     cur  |-> rest.cur]

\* One of the two loops of GenOpts.Method (goimpl.go:198-205, 208-215):
\* names the types ts in order, threading cur through.
RECURSIVE NameArgs(_, _)
NameRest(ts, s) ==
    ConsArg(Head(ts), Tail(ts) = <<>>, s, NameArgs(Tail(ts), s.cur))

NameArgs(ts, cur) ==
    IF ts = <<>> THEN [args |-> <<>>, cur |-> cur]
    ELSE NameRest(ts, Short(Head(ts), cur))

\* goimpl.go:216.
MethodOf(ft, inp, out) ==
    [Name |-> ft.Name, Inputs |-> inp.args, Outputs |-> out.args,
     Comment |-> ""]

\* goimpl.go:206-216: the outputs, named in the scope the inputs left.
MethodOutputs(ft, inp) == MethodOf(ft, inp, NameArgs(ft.Out, inp.cur))

\* GenOpts.Method (goimpl.go:194-217).  ft is a reflect.Method:
\* [Name, In, Out], In holding the receiver first for a concrete type.
Method(recName, ft) == MethodOutputs(ft, NameArgs(ft.In, {recName}))

\* goimpl.go:183-185.
WithComment(o, mtd) ==
    IF mtd.Name \in DOMAIN o.Comments
    THEN [mtd EXCEPT !.Comment = o.Comments[mtd.Name]]
    ELSE mtd

\* goimpl.go:179-188, on the methods that are not blacklisted.
MethodsOf(o, rec, keep) ==
    [i \in DOMAIN keep |-> WithComment(o, Method(rec, keep[i]))]

\* GenOpts.Methods (goimpl.go:176-190).
Methods(o, it) ==
    MethodsOf(o, First(o.ImplName),
              SelectSeq(it.methods, LAMBDA m : m.Name \notin o.MethodBlacklist))

---------------------------------------------------------------------------
(* The signature comparator.                                               *)

\* Arg.String(): the embedded reflect.Type's String().
ArgString(a) == Str(TypeString(a.Type))

\* goimpl.go:168: one finding; i counts from 0.
Finding(n, i, had, want) ==
    n \o "s[" \o ToString(i) \o "]: had " \o Backtick \o had \o Backtick
      \o " want " \o Backtick \o want \o Backtick

\* goimpl.go:166-170: the findings at the indices idx, in order.
Findings(n, a, b, idx) ==
    [k \in DOMAIN idx |->
        Finding(n, idx[k] - 1, ArgString(a[idx[k]]), ArgString(b[idx[k]]))]

\* Differing with the types themselves compared, not their renderings.
DifferingByType(a, b) ==
    SelectSeq([i \in 1..Len(a) |-> i], LAMBDA i : a[i].Type # b[i].Type)

\* goimpl.go:166-167: the indices at which the renderings differ.
Differing(a, b) ==
    SelectSeq([i \in 1..Len(a) |-> i],
              LAMBDA i : ArgString(a[i]) # ArgString(b[i]))

\* diff (goimpl.go:161-173).
diff(n, a, b) ==
    IF Len(a) # Len(b)
    THEN "number of " \o n \o "s: had " \o ToString(Len(a))
             \o ", want " \o ToString(Len(b))
    ELSE Join(Findings(n, a, b, Differing(a, b)), "; ")

\* JoinGroups without the separator between the two groups.
JoinGroupsNoSeparator(a, b) == a \o b

\* goimpl.go:155-158.
JoinGroups(a, b) == IF a # "" /\ b # "" THEN a \o "; " \o b ELSE a \o b

\* Method.Diff (goimpl.go:148-159).
Diff(m, other) ==
    IF m.Name # other.Name
    THEN "names are different: " \o m.Name \o " != " \o other.Name
    ELSE JoinGroups(diff("input", m.Inputs, other.Inputs),
                    diff("output", m.Outputs, other.Outputs))

\* toMap (goimpl.go:138-144), as a lookup: the method named k.
Lookup(ms, k) == ms[CHOOSE i \in DOMAIN ms : ms[i].Name = k]

MethodNames(ms) == {ms[i].Name : i \in DOMAIN ms}

---------------------------------------------------------------------------
(* The code assembler: GetName and the template.                           *)

\* goimpl.go:296-301.
Qualified(o, pkg, name) ==
    IF pkg = <<>> \/ pkg = o.PkgName THEN Str(name)
    ELSE Str(pkg) \o "." \o Str(name)

\* goimpl.go:323-327: the func type with the names of its parameters and
\* of its results.
FuncName(inputs, outputs) ==
    "func (" \o Join(inputs, ", ") \o ") "
    \o (IF Len(outputs) > 1 THEN "(" \o Join(outputs, ", ") \o ")"
        ELSE Join(outputs, ", "))

\* GenOpts.GetName (goimpl.go:293-331).
RECURSIVE GetName(_, _)
GetName(o, t) ==
    IF TypeName(t) # <<>> THEN Qualified(o, packageAndName(t)[1], TypeName(t))
    ELSE IF Kind(t) = "ptr" THEN "*" \o GetName(o, Elem(t))
    ELSE IF Kind(t) = "map"
    THEN "map[" \o GetName(o, MapKey(t)) \o "]" \o GetName(o, MapElem(t))
    ELSE IF Kind(t) = "slice" THEN "[]" \o GetName(o, Elem(t))
    ELSE IF Kind(t) = "chan"
    THEN Head(t.wraps).dir \o " " \o GetName(o, Elem(t))
    ELSE IF Kind(t) = "array"
    THEN "[" \o ToString(Head(t.wraps).n) \o "]" \o GetName(o, Elem(t))
    ELSE IF Kind(t) = "func"
    THEN FuncName([i \in 1..t.nin |-> GetName(o, t.parts[i])],
                  [i \in 1..(Len(t.parts) - t.nin) |->
                      GetName(o, t.parts[t.nin + i])])
    ELSE Str(TypeString(t))

\* {{range .Inputs}} {{.ArgName}} {{$R.GetName .}} {{.Sep}} {{end}}
RenderInputs(o, args) ==
    Join([i \in DOMAIN args |->
            " " \o args[i].ArgName \o " " \o GetName(o, args[i].Type)
                \o " " \o args[i].Sep \o " "], "")

\* {{range .Outputs}} {{if not $R.NoNamedReturnValues}} {{.ArgName}} {{end}}
\* {{$R.GetName .}} {{.Sep}} {{end}}
RenderOutputs(o, args) ==
    Join([i \in DOMAIN args |->
            " " \o (IF o.NoNamedReturnValues THEN ""
                    ELSE " " \o args[i].ArgName \o " ")
                \o " " \o GetName(o, args[i].Type)
                \o " " \o args[i].Sep \o " "], "")

\* The body of {{range $R.Methods .Inter}} (goimpl.go:362-366), with rec
\* the value of {{$rec := .First .ImplName}} (goimpl.go:361).
RenderMethod(o, rec, m) ==
    "\n" \o (IF m.Comment # "" THEN "// " \o m.Comment \o " " ELSE "")
    \o "\nfunc (" \o rec \o " " \o Str(o.ImplName) \o ") "
    \o m.Name \o " (" \o RenderInputs(o, m.Inputs) \o ") ("
    \o RenderOutputs(o, m.Outputs) \o ") {\n\tpanic(errors.New(\""
    \o Str(o.ImplName) \o "." \o m.Name \o " not implemented\")) }\n"

\* templateS (goimpl.go:351-367) executed on o, ms being $R.Methods .Inter.
RenderOf(o, ms) ==
    "\n\npackage " \o Str(o.PkgName) \o "\n\nimport (\n\t\"errors\"\n\t"
    \o Join([i \in DOMAIN o.Extra |-> "\"" \o o.Extra[i] \o "\"\n\t"], "")
    \o ")\ntype " \o Str(Clean(o.ImplName)) \o " struct{}\n\n\n"
    \o Join([i \in DOMAIN ms |-> RenderMethod(o, First(o.ImplName), ms[i])], "")
    \o "\n"

\* tm.Execute(buf, opts) (goimpl.go:49): the text.
Render(o) == RenderOf(o, Methods(o, o.Inter))

\* The names of the methods the template renders a stub for.
Rendered(o) == MethodNames(Methods(o, o.Inter))

---------------------------------------------------------------------------
(* go/parser on the assembled text, as far as the options decide it.       *)

IsDigit(r) == r \in {"0","1","2","3","4","5","6","7","8","9"}

\* The keywords of the language (go/token).
Keywords ==
    {
      <<"b","r","e","a","k">>, <<"c","a","s","e">>, <<"c","h","a","n">>,
      <<"c","o","n","s","t">>, <<"c","o","n","t","i","n","u","e">>, <<"d","e","f","a","u","l","t">>,
      <<"d","e","f","e","r">>, <<"e","l","s","e">>, <<"f","a","l","l","t","h","r","o","u","g","h">>,
      <<"f","o","r">>, <<"f","u","n","c">>, <<"g","o">>,
      <<"g","o","t","o">>, <<"i","f">>, <<"i","m","p","o","r","t">>,
      <<"i","n","t","e","r","f","a","c","e">>, <<"m","a","p">>, <<"p","a","c","k","a","g","e">>,
      <<"r","a","n","g","e">>, <<"r","e","t","u","r","n">>, <<"s","e","l","e","c","t">>,
      <<"s","t","r","u","c","t">>, <<"s","w","i","t","c","h">>, <<"t","y","p","e">>,
      <<"v","a","r">> }

\* go/scanner and go/parser on the names the template writes into the
\* text.  The model reads names made of letters, digits inside words,
\* underscores, spaces, stars, single dots and single minus signs; on any
\* other name (a number, an ellipsis, brackets, quotes, ...) it has no
\* behaviour: ParseStep is not enabled.
NameRunes == {"_", " ", "*", ".", "-"}
IsWordRune(r) == IsLetter(r) \/ IsDigit(r) \/ r = "_"
LexScopeAt(rs, i) ==
    /\ IsLetter(rs[i]) \/ IsDigit(rs[i]) \/ rs[i] \in NameRunes
    /\ IsDigit(rs[i]) => (i > 1 /\ IsWordRune(rs[i - 1]))
    /\ (rs[i] = "." /\ i < Len(rs)) => (~IsDigit(rs[i + 1]) /\ rs[i + 1] # ".")
    /\ (rs[i] = "-" /\ i < Len(rs)) => rs[i + 1] # "-"
LexScope(rs) == \A i \in DOMAIN rs : LexScopeAt(rs, i)

\* The index of the first rune at or after i that is not a space.
RECURSIVE SkipSpaces(_, _)
SkipSpaces(rs, i) ==
    IF i <= Len(rs) /\ rs[i] = " " THEN SkipSpaces(rs, i + 1) ELSE i

\* The index after the letters, digits and underscores that start at i.
RECURSIVE IdentEnd(_, _)
IdentEnd(rs, i) ==
    IF i <= Len(rs) /\ IsWordRune(rs[i]) THEN IdentEnd(rs, i + 1) ELSE i

\* A token: an identifier ("id"), a keyword ("kw") or an operator ("op"),
\* its text, and the index of its first rune.
Tok(k, text, at) == [k |-> k, text |-> text, at |-> at]
WordTok(w, at) == Tok(IF w \in Keywords THEN "kw" ELSE "id", Str(w), at)

\* The tokens of rs from index i on.
RECURSIVE TokensFrom(_, _)
TokensAt(rs, i) ==
    IF i > Len(rs) THEN <<>>
    ELSE IF IsWordRune(rs[i])
    THEN <<WordTok(SubSeq(rs, i, IdentEnd(rs, i) - 1), i)>>
             \o TokensFrom(rs, IdentEnd(rs, i))
    ELSE <<Tok("op", rs[i], i)>> \o TokensFrom(rs, i + 1)
TokensFrom(rs, i) == TokensAt(rs, SkipSpaces(rs, i))
Tokens(rs) == TokensFrom(rs, 1)

\* The j-th token, or the token c that follows the name.
TokenAt(ts, j, c) == IF j <= Len(ts) THEN ts[j] ELSE c

\* The first error of the parser: where, what it wanted, what it found.
\* line = 0 says that there is none; Unmodelled that the model does not
\* read the name.
Fault(line, col, want, found) ==
    [line |-> line, col |-> col, want |-> want, found |-> found]
NoFault == Fault(0, 0, "", Tok("", "", 0))
Unmodelled == Fault(0, 0, "unmodelled", Tok("", "", 0))
FaultAt(line, want, tok) == Fault(line, 8 + tok.at, want, tok)

\* The package clause "package " PkgName on line 3, the name starting in
\* column 9; without a name the next token is the import keyword of line 5.
PackageFaultOf(ts) ==
    IF ts = <<>> THEN Fault(5, 1, "'IDENT'", Tok("kw", "import", 0))
    ELSE IF ts[1].k # "id" THEN FaultAt(3, "'IDENT'", ts[1])
    ELSE IF Len(ts) = 1 THEN NoFault
    ELSE FaultAt(3, "';'", ts[2])
PackageFault(o) == PackageFaultOf(Tokens(o.PkgName))

\* After the package name the parser wants a semicolon, which the scanner
\* puts at the end of a line that ends in an identifier or in one of the
\* keywords break, continue, fallthrough and return.  A token that is not
\* an identifier is skipped; when it was the whole name and brought no
\* semicolon, the import keyword is reported as a second error.  An error
\* on the line of the one before it is dropped.
PackageMore(ts) ==
    IF /\ Len(ts) = 1
       /\ ts[1].k # "id"
       /\ ts[1].text \notin {"break", "continue", "fallthrough", "return"}
    THEN 1 ELSE 0

\* The declaration "type " Clean(ImplName) " struct{}": on line 8 when
\* there are no extra imports, each of which adds a line.  c is the
\* cleaned name, which holds letters only.
TypeFaultOf(c, line) ==
    IF c = <<>> THEN Fault(line, 7, "'IDENT'", Tok("kw", "struct", 0))
    ELSE IF c \in Keywords THEN Fault(line, 6, "'IDENT'", Tok("kw", Str(c), 0))
    ELSE NoFault
TypeFault(o) == TypeFaultOf(Clean(o.ImplName), 8 + Len(o.Extra))

\* The index of the first token at or after j that is not a star.
RECURSIVE PastStars(_, _)
PastStars(ts, j) ==
    IF j <= Len(ts) /\ ts[j].text = "*" THEN PastStars(ts, j + 1) ELSE j

\* The receiver "(" rec " " ImplName ")" of a stub, ImplName starting in
\* column 9; c is the closing parenthesis.  The parser takes rec alone or
\* rec "." name as the type of an unnamed receiver, and rec followed by
\* stars and a type name, qualified or not, as a named one.  After a name
\* and its type any further token is an error ("after"); so is a token
\* that can neither continue nor follow rec ("list").  Keywords that start
\* a type, and tokens after rec "." name, are not modelled.
AfterQualifier(ts, j, c, line) ==
    IF TokenAt(ts, j, c).k # "id" THEN FaultAt(line, "'IDENT'", TokenAt(ts, j, c))
    ELSE IF j >= Len(ts) THEN NoFault
    ELSE FaultAt(line, "after", ts[j + 1])
AfterTypeName(ts, j, c, line) ==
    IF j > Len(ts) THEN NoFault
    ELSE IF ts[j].text = "." THEN AfterQualifier(ts, j + 1, c, line)
    ELSE FaultAt(line, "after", ts[j])
StarredType(ts, j, c, line) ==
    IF TokenAt(ts, j, c).k = "id" THEN AfterTypeName(ts, j + 1, c, line)
    ELSE IF TokenAt(ts, j, c).k = "kw" THEN Unmodelled
    ELSE FaultAt(line, "type", TokenAt(ts, j, c))
QualifiedRec(ts, c, line) ==
    IF TokenAt(ts, 2, c).k # "id" THEN FaultAt(line, "'IDENT'", TokenAt(ts, 2, c))
    ELSE IF Len(ts) = 2 THEN NoFault
    ELSE Unmodelled
ReceiverFaultOf(ts, c, line) ==
    IF ts = <<>> THEN NoFault
    ELSE IF ts[1].k = "kw" THEN Unmodelled
    ELSE IF ts[1].k = "id" THEN AfterTypeName(ts, 2, c, line)
    ELSE IF ts[1].text = "." THEN QualifiedRec(ts, c, line)
    ELSE IF ts[1].text = "*" THEN StarredType(ts, PastStars(ts, 1), c, line)
    ELSE FaultAt(line, "list", ts[1])
ReceiverFault(o) ==
    ReceiverFaultOf(Tokens(o.ImplName), Tok("op", ")", Len(o.ImplName) + 1),
                    13 + Len(o.Extra))

\* The receivers the model reads in release rel, ts being the tokens of
\* ImplName and rf the receiver's fault: those that parse; from v15 on, a
\* name and its type followed by one last token, which the parser reports
\* as a missing comma and skips; and a minus sign followed by two or more
\* identifiers.  After any other fault the parser is out of step with the
\* text and what it reports next is not modelled.  Nor is it after a minus
\* sign and six, nine, twelve, ... identifiers in v15 and v110, where the
\* parser takes the identifiers three by three, reads the rest of the stub
\* as their continuation, and what it reports depends on that rest.
ReceiverScope(ts, rf, rel) ==
    \/ rf = NoFault
    \/ rf.want = "after" /\ rel # "v14" /\ rf.found = ts[Len(ts)]
    \/ /\ rf.want = "list"
       /\ Len(ts) >= 3
       /\ \A j \in 2..Len(ts) : ts[j].k = "id"
       /\ rel \in {"v15", "v110"} => (Len(ts) < 7 \/ (Len(ts) - 1) % 3 # 0)

\* Short (goimpl.go:247-251) names an argument after its type, and the
\* name of a type called Map, Go, If, Var or For is a keyword, which the
\* parser does not take for a parameter name; the results are named in the
\* text unless NoNamedReturnValues is set.  ms are the methods rendered.
\* What the parser reports on such a stub is not modelled.
ArgsScope(o, ms) ==
    \A i \in DOMAIN ms :
        /\ \A j \in DOMAIN ms[i].Inputs :
              ms[i].Inputs[j].ArgName \notin {Str(w) : w \in Keywords}
        /\ o.NoNamedReturnValues
              \/ \A j \in DOMAIN ms[i].Outputs :
                    ms[i].Outputs[j].ArgName \notin {Str(w) : w \in Keywords}

\* The extra imports and the comments the model reads: import paths of
\* letters, digits, slashes, dots, underscores and minus signs, each of
\* which makes one line, and comments that stay on their line.
TextScope(o) ==
    /\ \A i \in DOMAIN o.Extra :
          /\ Len(o.Extra[i]) > 0
          /\ \A j \in 1..Len(o.Extra[i]) :
                \/ IsLetter(SubSeq(o.Extra[i], j, j))
                \/ IsDigit(SubSeq(o.Extra[i], j, j))
                \/ SubSeq(o.Extra[i], j, j) \in {"/", ".", "_", "-"}
    /\ \A k \in DOMAIN o.Comments :
          \A j \in 1..Len(o.Comments[k]) : SubSeq(o.Comments[k], j, j) # "\n"

\* The records the model reads in release rel.  A name without letters
\* leaves the type declaration without a name; the parser then skips to the
\* next type, var or const declaration, of which there is none, and never
\* reads a receiver.  A name whose letters spell a keyword is not modelled.
ParserScope(o, rel) ==
    /\ LexScope(o.PkgName) /\ LexScope(o.ImplName)
    /\ \/ Clean(o.ImplName) = <<>>
       \/ /\ Clean(o.ImplName) \notin Keywords
          /\ ReceiverScope(Tokens(o.ImplName), ReceiverFault(o), rel)
    /\ TextScope(o)
    /\ ArgsScope(o, Methods(o, o.Inter))

\* The errors are sorted by position and the first is reported.
FirstFault(pf, tf, rf, stubs) ==
    IF pf.line # 0 THEN pf
    ELSE IF tf.line # 0 THEN tf
    ELSE IF stubs # {} THEN rf
    ELSE NoFault

\* The releases of go/parser word the same error differently:
\*   v14   names a literal by class and text; a token after a parameter is
\*         reported as a missing closing parenthesis;
\*   v15   reports a token after a name and its type as a missing comma;
\*   v110  names a literal by its text alone;
\*   v117  reports every token that cannot continue the list as a missing
\*         comma, and goes on to report the errors of the later lines.
ParserReleases == {"v14", "v15", "v110", "v117"}
Found(tok, rel) ==
    IF tok.k = "id"
    THEN IF rel \in {"v14", "v15"} THEN "'IDENT' " \o tok.text ELSE tok.text
    ELSE "'" \o tok.text \o "'"
MissingComma(want, rel) ==
    \/ want = "after" /\ rel # "v14"
    \/ want = "list" /\ rel = "v117"
Wording(f, rel) ==
    IF f.want \in {"after", "list"}
    THEN IF MissingComma(f.want, rel) THEN "missing ',' in parameter list"
         ELSE "expected ')', found " \o Found(f.found, rel)
    ELSE "expected " \o f.want \o ", found " \o Found(f.found, rel)

\* The parser gives up after ten further errors.
Capped(n) == IF n > 10 THEN 10 ELSE n

\* How many errors follow the first.  After the package clause the parser
\* stops, with pm errors more.  After a type declaration without a name it
\* reads no stub.  After a missing comma in a receiver it goes on, and
\* reports the same error in each of the other n - 1 stubs; after any other
\* fault of a receiver in scope it finds no place to resume.
MoreErrors(pf, pm, tf, rf, n, rel) ==
    IF pf.line # 0 THEN pm
    ELSE IF tf.line # 0 \/ rf.line = 0 \/ n = 0 THEN 0
    ELSE IF MissingComma(rf.want, rel) THEN Capped(n - 1)
    ELSE 0

\* scanner.ErrorList.Error(): the first error, and how many more there were.
ErrorListText(f, rel, more) ==
    "dummy.go:" \o ToString(f.line) \o ":" \o ToString(f.col) \o ": "
    \o Wording(f, rel)
    \o (IF more = 0 THEN "" ELSE " (and " \o ToString(more) \o " more errors)")

\* parser.ParseFile (goimpl.go:54) on the text assembled from o with the
\* stubs named: "" when the text parses, else the parser's message, which
\* names a position and a token, never the text.  rel is the release of
\* go/parser.  On a record the model does not read the result is "?".
ParseErrorOf(f, rel, more) ==
    IF f.line = 0 THEN "" ELSE ErrorListText(f, rel, more)
ParseErrorIn(o, stubs, rel) ==
    ParseErrorOf(FirstFault(PackageFault(o), TypeFault(o), ReceiverFault(o), stubs),
                 rel,
                 MoreErrors(PackageFault(o), PackageMore(Tokens(o.PkgName)), TypeFault(o),
                            ReceiverFault(o), Cardinality(stubs), rel))
ParseError(o, stubs, rel) ==
    IF ParserScope(o, rel) THEN ParseErrorIn(o, stubs, rel) ELSE "?"

---------------------------------------------------------------------------
(* handleExisting.                                                         *)

\* ConfigError without the check of PkgName.
ConfigErrorImplNameOnly(o) ==
    IF o.Existing = <<>> THEN ""
    ELSE IF o.ImplName # <<>>
    THEN "only one of ImplName and existing should be set."
    ELSE ""

\* goimpl.go:78-86: the configuration check; "" when there is no error.
ConfigError(o) ==
    IF o.Existing = <<>> THEN ""
    ELSE IF o.ImplName # <<>>
    THEN "only one of ImplName and existing should be set."
    ELSE IF o.PkgName # <<>>
    THEN "only one of PkgName and existing should be set."
    ELSE ""

\* goimpl.go:103: comm, _ := opts.Comments[k].
CommentOf(o, k) == IF k \in DOMAIN o.Comments THEN o.Comments[k] ELSE ""

\* AppendDiff without the separating space.
AppendDiffNoSpace(comm, d) == comm \o d

\* goimpl.go:103-107: the comment of a method whose diff is d.
AppendDiff(comm, d) == (IF comm # "" THEN comm \o " " ELSE "") \o d

\* goimpl.go:91: em[i].Inputs = mtd.Inputs[1:].
StripReceiver(em) == [i \in DOMAIN em |-> [em[i] EXCEPT !.Inputs = Tail(@)]]

\* goimpl.go:89-92: the existing type's methods, receiver stripped.
ExistingMethods(o, et) == StripReceiver(Methods(o, et))

\* goimpl.go:96-101: the diff of every required method the existing type
\* has, by name.
Diffs(em, mtds) ==
    [k \in MethodNames(mtds) \cap MethodNames(em) |->
        Diff(Lookup(em, k), Lookup(mtds, k))]

\* ApplyDiffs that never blacklists a method.
ApplyDiffsNoBlacklist(o, ds) ==
    [Comments |->
        [k \in (DOMAIN o.Comments) \cup {j \in DOMAIN ds : ds[j] # ""} |->
            IF k \in DOMAIN ds /\ ds[k] # ""
            THEN (IF CommentOf(o, k) # "" THEN CommentOf(o, k) \o " " ELSE "")
                     \o ds[k]
            ELSE o.Comments[k]],
     MethodBlacklist |-> o.MethodBlacklist]

\* goimpl.go:102-111: the comments and the blacklist after the loop.  The
\* keys of rMap are distinct, so the order of the range does not matter.
ApplyDiffs(o, ds) ==
    [Comments |->
        [k \in (DOMAIN o.Comments) \cup {j \in DOMAIN ds : ds[j] # ""} |->
            IF k \in DOMAIN ds /\ ds[k] # ""
            THEN AppendDiff(CommentOf(o, k), ds[k])
            ELSE o.Comments[k]],
     MethodBlacklist |-> o.MethodBlacklist \cup {j \in DOMAIN ds : ds[j] = ""}]

\* goimpl.go:87-112.
Reconcile(o, et) ==
    ApplyDiffs(o, Diffs(ExistingMethods(o, et), Methods(o, o.Inter)))

\* goimpl.go:114-116.
PointerNames(pn) == <<pn[1], <<"*">> \o pn[2]>>

\* goimpl.go:113-119: <<PkgName, ImplName>> of the existing type.
ExistingNames(et) ==
    IF Kind(et) = "ptr" THEN PointerNames(packageAndName(Elem(et)))
    ELSE packageAndName(et)

\* goimpl.go:87-120: the record after a successful handleExisting.
Reconciled(o, r, pn) ==
    [o EXCEPT !.Comments = r.Comments,
              !.MethodBlacklist = r.MethodBlacklist,
              !.PkgName = pn[1],
              !.ImplName = pn[2]]

\* GenOpts.handleExisting (goimpl.go:77-121): the error and the record.
handleExisting(o) ==
    IF o.Existing = <<>> \/ ConfigError(o) # ""
    THEN [err |-> ConfigError(o), opts |-> o]
    ELSE [err  |-> "",
          opts |-> Reconciled(o, Reconcile(o, o.Existing[1]),
                              ExistingNames(o.Existing[1]))]

---------------------------------------------------------------------------
(* The types, interfaces and existing types the runs draw from.            *)

TInt      == Ty(<<>>, TRUE, "", <<>>, <<"i","n","t">>, "none")
TFloat    == Ty(<<>>, TRUE, "", <<>>, <<"f","l","o","a","t","6","4">>, "none")
TError    == Ty(<<>>, TRUE, "", <<>>, <<"e","r","r","o","r">>, "error")
TBytes    == Ty(<<"slice">>, TRUE, "", <<>>, <<"u","i","n","t","8">>, "none")
TIface    == Ty(<<>>, FALSE, "", <<>>, <<"i","n","t","e","r","f","a","c","e"," ","{","}">>, "none")
TRequest  == Ty(<<"ptr">>, TRUE, "net/rpc", <<"r","p","c">>, <<"R","e","q","u","e","s","t">>, "none")
TResponse == Ty(<<"ptr">>, TRUE, "net/rpc", <<"r","p","c">>, <<"R","e","s","p","o","n","s","e">>, "none")
\* A different type that prints like TRequest: package rpc of another path.
TRequest2 == Ty(<<"ptr">>, TRUE, "other/rpc", <<"r","p","c">>, <<"R","e","q","u","e","s","t">>, "none")
TContext  == Ty(<<>>, TRUE, "golang.org/x/net/context", <<"c","o","n","t","e","x","t">>, <<"C","o","n","t","e","x","t">>, "ctx")
TID       == Ty(<<>>, TRUE, "w12", <<"w","1","2">>, <<"I","D">>, "none")
\* A named error type whose first letter is e, and one that is both an
\* error and a context.
TErrPtr   == Ty(<<"ptr">>, TRUE, "w12", <<"w","1","2">>, <<"E","r","r">>, "error")
TBoth     == Ty(<<>>, TRUE, "w12", <<"w","1","2">>, <<"B","o","t","h">>, "both")

Mtd(name, in, out) == [Name |-> name, In |-> in, Out |-> out]

\* io.ReadCloser (goimpl_test.go:26).
IoReadCloser ==
    [Ty(<<>>, TRUE, "io", <<"i","o">>, <<"R","e","a","d","C","l","o","s","e","r">>, "none") EXCEPT
        !.methods = << Mtd("Close", <<>>, <<TError>>),
                       Mtd("Read", <<TBytes>>, <<TInt, TError>>) >>]

\* net/rpc.ClientCodec (goimpl_test.go:48).
RpcClientCodec ==
    [Ty(<<>>, TRUE, "net/rpc", <<"r","p","c">>, <<"C","l","i","e","n","t","C","o","d","e","c">>, "none") EXCEPT
        !.methods = << Mtd("Close", <<>>, <<TError>>),
                       Mtd("ReadResponseBody", <<TIface>>, <<TError>>),
                       Mtd("ReadResponseHeader", <<TResponse>>, <<TError>>),
                       Mtd("WriteRequest", <<TRequest, TIface>>, <<TError>>) >>]

\* An interface of the caller's package pkg whose method takes a map, a
\* chan, an array and a func over a type of that package: the kinds
\* GetName descends into (goimpl.go:306-327).
TItem == Ty(<<>>, TRUE, "example/pkg", <<"p","k","g">>, <<"I","t","e","m">>, "none")
TString == Ty(<<>>, TRUE, "", <<>>, <<"s","t","r","i","n","g">>, "none")
PkgStore ==
    [Ty(<<>>, TRUE, "example/pkg", <<"p","k","g">>, <<"S","t","o","r","e">>, "none") EXCEPT
        !.methods = << Mtd("Watch",
                           << MapOf(TString, TItem), ChanOf("<-chan", TItem),
                              ArrayOf(2, TItem), FuncOf(<<TItem>>, <<TError>>) >>,
                           <<TError>>) >>]

\* AlmostClientCodec (goimpl_test.go:98-118): a non-interface type, so each
\* method's In starts with the receiver.
TAlmost == Ty(<<>>, TRUE, "github.com/sasha-s/goimpl", <<"g","o","i","m","p","l">>, <<"A","l","m","o","s","t","C","l","i","e","n","t","C","o","d","e","c">>, "none")
AlmostClientCodec ==
    [TAlmost EXCEPT
        !.methods = << Mtd("Close", <<TAlmost, TInt>>, <<TError>>),
                       Mtd("ReadResponseHeader", <<TAlmost, TResponse>>, <<TError>>),
                       Mtd("WriteRequest", <<TAlmost, TIface, TRequest>>, <<TError>>) >>]

\* A pointer type that implements io.ReadCloser exactly, and more.
TFilePtr == Ty(<<"ptr">>, TRUE, "os", <<"o","s">>, <<"F","i","l","e">>, "none")
FilePtr ==
    [TFilePtr EXCEPT
        !.methods = << Mtd("Close", <<TFilePtr>>, <<TError>>),
                       Mtd("Read", <<TFilePtr, TBytes>>, <<TInt, TError>>),
                       Mtd("Write", <<TFilePtr, TBytes>>, <<TInt, TError>>) >>]

Interfaces == {IoReadCloser, RpcClientCodec, PkgStore}

\* opts.Existing: <<>> is nil, <<t>> holds a value of type t.
Existings == {<<>>, <<AlmostClientCodec>>, <<FilePtr>>}

ImplNames == {<<>>, <<"*","I","m","p","l">>, <<"-","b","a","d"," ","n","a","m","e">>}

PkgNames == {<<>>, <<"p","k","g">>}

\* Names a caller may blacklist: one the existing types get wrong, one they
\* get right, and one no interface has.
BlacklistSeeds == {{}, {"Close"}, {"Close", "Flush"}}

\* Comments a caller may supply: on a method that the existing types
\* mismatch, miss or satisfy, with an empty text among them.
CommentSeeds ==
    { [k \in D |-> "TODO"] :
        D \in {{}, {"Close"}, {"Read", "ReadResponseHeader"},
               {"Close", "Read", "ReadResponseHeader"}} }
        \cup { [k \in {"Close"} |-> ""] }

\* Which external step fails in a run: none, template execution, printing,
\* goimports, or the sink's Write.
Fails == {"ok", "template", "print", "imports", "write"}

\* A run's environment: the step that fails and the release of go/parser.
\* The releases are tried in the runs where no other step fails.
Env(fail, parser) == [fail |-> fail, parser |-> parser]
Envs ==
    {Env(f, "v14") : f \in Fails} \cup {Env("ok", r) : r \in ParserReleases}

---------------------------------------------------------------------------
(* Generate, step by step.  The steps of one call run in program order;    *)
(* a finished call may be followed by another call on the same record.     *)

\* How many times Generate is called on one options record.
MaxCalls == 2

OptsSet ==
    [PkgName : PkgNames, ImplName : ImplNames, Inter : Interfaces,
     Existing : Existings, NoNamedReturnValues : BOOLEAN,
     MethodBlacklist : BlacklistSeeds, Comments : CommentSeeds,
     NoGoImports : BOOLEAN, Extra : {<<>>}]

NoBuf == [text |-> "", stubs |-> {}, stage |-> "empty"]

\* What a call leaves behind: its error, the text it assembled, what the
\* sink received, and the blacklist and comments of the record.
Outcome(kind, e, b, written, o) ==
    [errKind |-> kind, err |-> e, text |-> b.text, out |-> written,
     MethodBlacklist |-> o.MethodBlacklist, Comments |-> o.Comments]

\* A return statement of Generate.
Return(kind, e, b, written, o) ==
    /\ pc' = "returned"
    /\ errKind' = kind
    /\ err' = e
    /\ buf' = b
    /\ sink' = written
    /\ opts' = o
    /\ hist' = Append(hist, Outcome(kind, e, b, written, o))

\* The variables of the comparator run and of the namer run, and those of
\* Generate, when the specification does not use them.
DiffOff ==
    /\ dHave = Mtd("", <<>>, <<>>) /\ dWant = Mtd("", <<>>, <<>>)
    /\ dOut = "" /\ dPc = "off"

NamerOff ==
    /\ nImpl = <<>> /\ nFt = Mtd("", <<>>, <<>>) /\ nCur = {}
    /\ nNames = <<>> /\ nPc = "off"

GenerateOff ==
    /\ opts = <<>> /\ opts0 = <<>> /\ pc = "off" /\ buf = NoBuf
    /\ sink = <<>> /\ err = <<>> /\ errKind = "none" /\ calls = 0
    /\ hist = <<>> /\ env = Env("ok", "v14")

Init ==
    /\ opts \in OptsSet
    /\ opts0 = opts
    /\ pc = "idle"
    /\ buf = NoBuf
    /\ sink = <<>>
    /\ err = <<>>
    /\ errKind = "none"
    /\ calls = 0
    /\ hist = <<>>
    /\ env \in Envs
    /\ DiffOff
    /\ NamerOff

\* The caller calls Generate(opts, out) with a fresh sink.
Call ==
    /\ pc \in {"idle", "returned"}
    /\ calls < MaxCalls
    /\ calls' = calls + 1
    /\ pc' = "handleExisting"
    /\ buf' = NoBuf
    /\ sink' = <<>>
    /\ err' = <<>>
    /\ errKind' = "none"
    /\ UNCHANGED <<opts, opts0, hist, env, diffVars, namerVars>>

\* goimpl.go:42-44, with r the result of handleExisting.
AfterHandleExisting(r) ==
    IF r.err # ""
    THEN Return("config", <<r.err>>, buf, sink, opts)
    ELSE /\ opts' = r.opts
         /\ pc' = "execute"
         /\ UNCHANGED <<buf, sink, err, errKind, hist>>

\* goimpl.go:36-44.  (A nil map and an empty map are the same value here.)
HandleExistingStep ==
    /\ pc = "handleExisting"
    /\ AfterHandleExisting(handleExisting(opts))
    /\ UNCHANGED <<opts0, calls, env, diffVars, namerVars>>

\* goimpl.go:45-47.
DefaultPkgName(o) ==
    [o EXCEPT !.PkgName = IF @ = <<>> THEN packageAndName(o.Inter)[1] ELSE @]

\* buf after tm.Execute: the text, and the names of the stubs in it.
Assembled(o, ms) ==
    [text |-> RenderOf(o, ms), stubs |-> MethodNames(ms), stage |-> "template"]

\* goimpl.go:48-51, with o the record after goimpl.go:45-47.
Execute(o) ==
    IF env.fail = "template"
    THEN Return("template", <<"template: impl: execution failed">>,
                buf, sink, o)
    ELSE /\ opts' = o
         /\ buf' = Assembled(o, Methods(o, o.Inter))
         /\ pc' = "parse"
         /\ UNCHANGED <<sink, err, errKind, hist>>

\* goimpl.go:45-51: the default package name, then tm.Execute into buf.
ExecuteStep ==
    /\ pc = "execute"
    /\ Execute(DefaultPkgName(opts))
    /\ UNCHANGED <<opts0, calls, env, diffVars, namerVars>>

\* goimpl.go:56: the error Generate returns when the parser reports e on
\* the text b.
ParseFailure(e, b) == <<"Error parsing generated code: ", e>>

\* goimpl.go:55-57, with e the parser's message.
AfterParse(e) ==
    IF e # ""
    THEN Return("parse", ParseFailure(e, buf), buf, sink, opts)
    ELSE /\ pc' = "print"
         /\ UNCHANGED <<opts, buf, sink, err, errKind, hist>>

\* goimpl.go:52-57, for the names the model of the parser reads.
ParseStep ==
    /\ pc = "parse"
    /\ ParserScope(opts, env.parser)
    /\ AfterParse(ParseError(opts, buf.stubs, env.parser))
    /\ UNCHANGED <<opts0, calls, env, diffVars, namerVars>>

\* PrintStep with the printer writing to out instead of b.
PrintStepToSink ==
    /\ pc = "print"
    /\ IF env.fail = "print"
       THEN Return("print", <<"printer: failed">>, buf, sink, opts)
       ELSE /\ buf' = [buf EXCEPT !.stage = "printed"]
            /\ sink' = <<[text |-> buf.text, stage |-> "printed", whole |-> TRUE]>>
            /\ pc' = "imports"
            /\ UNCHANGED <<opts, err, errKind, hist>>
    /\ UNCHANGED <<opts0, calls, env, diffVars, namerVars>>

\* goimpl.go:58-66: cfg.Fprint into b.
PrintStep ==
    /\ pc = "print"
    /\ IF env.fail = "print"
       THEN Return("print", <<"printer: failed">>, buf, sink, opts)
       ELSE /\ buf' = [buf EXCEPT !.stage = "printed"]
            /\ pc' = "imports"
            /\ UNCHANGED <<opts, sink, err, errKind, hist>>
    /\ UNCHANGED <<opts0, calls, env, diffVars, namerVars>>

\* goimpl.go:67-72: imports.Process unless NoGoImports.
ImportsStep ==
    /\ pc = "imports"
    /\ IF opts.NoGoImports
       THEN /\ pc' = "write"
            /\ UNCHANGED <<opts, buf, sink, err, errKind, hist>>
       ELSE IF env.fail = "imports"
       THEN Return("imports", <<"Error fixing imports: ", "dummy.go: failed">>,
                   buf, sink, opts)
       ELSE /\ buf' = [buf EXCEPT !.stage = "imports"]
            /\ pc' = "write"
            /\ UNCHANGED <<opts, sink, err, errKind, hist>>
    /\ UNCHANGED <<opts0, calls, env, diffVars, namerVars>>

\* goimpl.go:73-74: the one Write; a failing Write may have taken part of
\* the bytes.
WriteStep ==
    /\ pc = "write"
    /\ IF env.fail = "write"
       THEN Return("write", <<"short write">>, buf,
                   <<[text |-> buf.text, stage |-> buf.stage, whole |-> FALSE]>>,
                   opts)
       ELSE Return("none", <<>>, buf,
                   <<[text |-> buf.text, stage |-> buf.stage, whole |-> TRUE]>>,
                   opts)
    /\ UNCHANGED <<opts0, calls, env, diffVars, namerVars>>

Next ==
    \/ Call
    \/ HandleExistingStep
    \/ ExecuteStep
    \/ ParseStep
    \/ PrintStep
    \/ ImportsStep
    \/ WriteStep

Spec == Init /\ [][Next]_vars

---------------------------------------------------------------------------
(* The comparator on its own: have.Diff(want) for two same-named methods   *)
(* drawn from bounded signatures.                                          *)

\* Longest input list and longest output list of a compared method.
MaxIn == 2
MaxOut == 1

SeqsUpTo(S, n) == UNION {[1..k -> S] : k \in 0..n}

\* TRequest and TRequest2 are different types that print alike.
DiffInTypes == {TInt, TRequest, TRequest2}
DiffOutTypes == {TError, TInt}

DiffMethods ==
    {Mtd("M", in, out) : in \in SeqsUpTo(DiffInTypes, MaxIn),
                         out \in SeqsUpTo(DiffOutTypes, MaxOut)}

InitDiff ==
    /\ dHave \in DiffMethods
    /\ dWant \in DiffMethods
    /\ dOut = ""
    /\ dPc = "ready"
    /\ GenerateOff
    /\ NamerOff

\* w.Diff(*v) (goimpl.go:101) on the Method structs of the two.
DiffStep ==
    /\ dPc = "ready"
    /\ dOut' = Diff(Method("z", dHave), Method("z", dWant))
    /\ dPc' = "done"
    /\ UNCHANGED <<dHave, dWant, genVars, namerVars>>

NextDiff == DiffStep

SpecDiff == InitDiff /\ [][NextDiff]_vars

---------------------------------------------------------------------------
(* The namer on its own: GenOpts.Method on one reflect.Method, one         *)
(* parameter at a time.                                                    *)

\* Longest input list and longest output list of a named method.
NamerMaxIn == 2
NamerMaxOut == 2

NamerTypes == {TError, TErrPtr, TInt, TID}

\* ImplName: empty, a pointer name, a dotted name, and one without a letter.
NamerImplNames ==
    {<<>>, <<"*","I","m","p","l">>, <<"p","k","g",".","E","r","r">>, <<"-","1">>}

NamerMethods ==
    {Mtd("M", in, out) : in \in SeqsUpTo(NamerTypes, NamerMaxIn),
                         out \in SeqsUpTo(NamerTypes, NamerMaxOut)}

InitNamer ==
    /\ nImpl \in NamerImplNames
    /\ nFt \in NamerMethods
    /\ nCur = {}
    /\ nNames = <<>>
    /\ nPc = "start"
    /\ GenerateOff
    /\ DiffOff

\* The parameters in the order Method names them: inputs, then outputs.
Params(ft) == ft.In \o ft.Out

\* goimpl.go:178 and 195: rec := opts.First(opts.ImplName) seeds cur.
SeedScope ==
    /\ nPc = "start"
    /\ nCur' = {First(nImpl)}
    /\ nPc' = "naming"
    /\ UNCHANGED <<nImpl, nFt, nNames, genVars, diffVars>>

\* goimpl.go:204 / 214, with s the result of opts.Short(t, cur).
Named(s) ==
    /\ nNames' = Append(nNames, s.name)
    /\ nCur' = s.cur

\* One iteration of the loops of goimpl.go:198-215.
NameParam ==
    /\ nPc = "naming"
    /\ Len(nNames) < Len(Params(nFt))
    /\ Named(Short(Params(nFt)[Len(nNames) + 1], nCur))
    /\ UNCHANGED <<nImpl, nFt, nPc, genVars, diffVars>>

\* goimpl.go:216: Method returns.
NamerReturn ==
    /\ nPc = "naming"
    /\ Len(nNames) = Len(Params(nFt))
    /\ nPc' = "done"
    /\ UNCHANGED <<nImpl, nFt, nCur, nNames, genVars, diffVars>>

NextNamer ==
    \/ SeedScope
    \/ NameParam
    \/ NamerReturn

SpecNamer == InitNamer /\ [][NextNamer]_vars

---------------------------------------------------------------------------
(* Properties of the comparator (checked under SpecDiff).                  *)

\* The canonical renderings of a list of types.
Renderings(ts) == [i \in DOMAIN ts |-> Str(TypeString(ts[i]))]

\* Equal length and equal rendering at every position, for the inputs and
\* for the outputs.
SameSignature(h, w) ==
    /\ Renderings(h.In) = Renderings(w.In)
    /\ Renderings(h.Out) = Renderings(w.Out)

\* The finding the text carries for index k (counted from 1) of list n.
IndexFinding(n, k, h, w) ==
    n \o "s[" \o ToString(k - 1) \o "]: had '" \o Renderings(h)[k]
      \o "' want '" \o Renderings(w)[k] \o "'"

LengthFinding(n, h, w) ==
    "number of " \o n \o "s: had " \o ToString(Len(h)) \o ", want "
      \o ToString(Len(w))

\* The findings of one list, in the order the text gives them.
RECURSIVE IndexFindingsFrom(_, _, _, _)
IndexFindingsFrom(n, k, h, w) ==
    IF k > Len(h) THEN <<>>
    ELSE (IF Renderings(h)[k] # Renderings(w)[k]
          THEN <<IndexFinding(n, k, h, w)>> ELSE <<>>)
         \o IndexFindingsFrom(n, k + 1, h, w)

GroupFindings(n, h, w) ==
    IF Len(h) # Len(w) THEN <<LengthFinding(n, h, w)>>
    ELSE IndexFindingsFrom(n, 1, h, w)

\* Every finding of the comparison, input group first.
AllFindings(h, w) ==
    GroupFindings("input", h.In, w.In) \o GroupFindings("output", h.Out, w.Out)

\* The text is a "; "-joined list of findings among which f occurs.
RECURSIVE Pick(_, _, _)
Pick(all, S, k) ==
    IF k > Len(all) THEN <<>>
    ELSE (IF k \in S THEN <<all[k]>> ELSE <<>>) \o Pick(all, S, k + 1)

Cites(text, all, f) ==
    \E S \in SUBSET DOMAIN all :
        /\ text = Join(Pick(all, S, 1), "; ")
        /\ \E k \in S : all[k] = f

\* want's inputs are have's with positions i and j exchanged, and the two
\* exchanged types render differently.
SwappedAt(h, w, i, j) ==
    /\ Len(h.In) = Len(w.In)
    /\ i < j /\ j <= Len(h.In)
    /\ w.In = [h.In EXCEPT ![i] = h.In[j], ![j] = h.In[i]]
    /\ Renderings(h.In)[i] # Renderings(h.In)[j]

\* C4: for two same-named signatures Diff(have, want) is "" exactly when
\* the input lists have equal length and equal rendering at every position
\* and so have the output lists; Diff(m, m) is ""; and exchanging two
\* inputs that render differently gives a non-empty diff that cites both
\* exchanged indices.
C4_DiffEmptyIffSameRenderings ==
    dPc = "done" =>
        /\ (dOut = "") <=> SameSignature(dHave, dWant)
        /\ dHave = dWant => dOut = ""
        /\ \A i, j \in DOMAIN dHave.In :
              SwappedAt(dHave, dWant, i, j) =>
                  /\ dOut # ""
                  /\ Cites(dOut, AllFindings(dHave, dWant),
                           IndexFinding("input", i, dHave.In, dWant.In))
                  /\ Cites(dOut, AllFindings(dHave, dWant),
                           IndexFinding("input", j, dHave.In, dWant.In))

\* C4 witness: Diff has run on two methods whose inputs are exchanged
\* (int, *rpc.Request against *rpc.Request, int) and cites both indices.
C4_Witness ==
    /\ dPc = "done"
    /\ dHave.In = <<TInt, TRequest>>
    /\ SwappedAt(dHave, dWant, 1, 2)
    /\ dHave.Out = dWant.Out
    /\ dOut = "inputs[0]: had 'int' want '*rpc.Request'; inputs[1]: had '*rpc.Request' want 'int'"

\* C5: the text of Diff is the input group followed by the output group,
\* the findings joined with "; "; a group is the single finding "number of
\* <list>s: had <n>, want <m>" when the lengths differ, and otherwise one
\* finding per differing index in ascending order.
C5_DiffTextLayout ==
    dPc = "done" =>
        /\ dOut = Join(AllFindings(dHave, dWant), "; ")
        /\ (Len(dHave.In) # Len(dWant.In)
              /\ Renderings(dHave.Out) = Renderings(dWant.Out)) =>
              dOut = LengthFinding("input", dHave.In, dWant.In)
        /\ (Renderings(dHave.In) = Renderings(dWant.In)
              /\ Len(dHave.Out) # Len(dWant.Out)) =>
              dOut = LengthFinding("output", dHave.Out, dWant.Out)

\* C5 witness: a length mismatch in the inputs together with a differing
\* output, the input finding first.
C5_Witness ==
    /\ dPc = "done"
    /\ Len(dHave.In) = 2 /\ Len(dWant.In) = 1
    /\ dOut = "number of inputs: had 2, want 1; outputs[0]: had 'error' want 'int'"

---------------------------------------------------------------------------
(* Properties of the namer (checked under SpecNamer).                      *)

Range(f) == {f[i] : i \in DOMAIN f}

\* The names in scope when parameter k is named: the receiver's and those
\* of the parameters before it.
ScopeBefore(k) == {First(nImpl)} \cup {nNames[j] : j \in 1..(k - 1)}

\* C6: the identifiers given to the parameters of a method (inputs first,
\* then outputs) are pairwise distinct, none is the receiver variable's
\* name, and after each assignment the scope holds the receiver's name and
\* every name given so far; the Method struct carries these names.
C6_ParameterNamesDistinct ==
    nPc \in {"naming", "done"} =>
        /\ nCur = {First(nImpl)} \cup Range(nNames)
        /\ \A i, j \in DOMAIN nNames : i # j => nNames[i] # nNames[j]
        /\ \A i \in DOMAIN nNames : nNames[i] # First(nImpl)
        /\ nPc = "done" =>
              LET m == Method(First(nImpl), nFt)
              IN  /\ [i \in DOMAIN m.Inputs |-> m.Inputs[i].ArgName]
                        \o [i \in DOMAIN m.Outputs |-> m.Outputs[i].ArgName]
                     = nNames
                  /\ Len(m.Inputs) = Len(nFt.In)

\* C6 witness: with receiver i (ImplName *Impl), (int, error) (int, error)
\* has been named i1, err, i2, err1.
C6_Witness ==
    /\ nPc = "done"
    /\ First(nImpl) = "i"
    /\ nFt.In = <<TInt, TError>> /\ nFt.Out = <<TInt, TError>>
    /\ nNames = <<"i1", "err", "i2", "err1">>

\* C7: a parameter whose type converts to error is named err when err is
\* not yet in scope and otherwise err<k> for the smallest k >= 1 whose
\* name is free; every other candidate follows the same rule; the search
\* for the next parameter's name ends with a name that was free, and the
\* name chosen is in the scope afterwards.
C7_SmallestFreeSuffix ==
    /\ \A k \in DOMAIN nNames :
          LET t == Params(nFt)[k]
              f == IF ConvertibleToError(t) THEN "err" ELSE Candidate(t)
          IN  /\ nNames[k] \in nCur
              /\ IF f \notin ScopeBefore(k)
                 THEN nNames[k] = f
                 ELSE \E c \in 1..Cardinality(ScopeBefore(k)) :
                         /\ nNames[k] = f \o ToString(c)
                         /\ nNames[k] \notin ScopeBefore(k)
                         /\ \A d \in 1..(c - 1) :
                               f \o ToString(d) \in ScopeBefore(k)
    /\ (nPc = "naming" /\ Len(nNames) < Len(Params(nFt))) =>
          LET s == Short(Params(nFt)[Len(nNames) + 1], nCur)
          IN  s.name \notin nCur /\ s.cur = nCur \cup {s.name}

\* C7 witness: three error parameters have been named err, err1, err2.
C7_Witness ==
    /\ Len(nNames) >= 3
    /\ \A k \in 1..3 : ConvertibleToError(Params(nFt)[k])
    /\ SubSeq(nNames, 1, 3) = <<"err", "err1", "err2">>

---------------------------------------------------------------------------
(* Properties of Generate (checked under Spec).  opts0 is the record the   *)
(* caller built; the classification below reads the two method sets as     *)
(* the caller gave them.                                                   *)

RequiredNames == {opts0.Inter.methods[i].Name : i \in DOMAIN opts0.Inter.methods}

ExistingHas(m) ==
    /\ opts0.Existing # <<>>
    /\ \E i \in DOMAIN opts0.Existing[1].methods :
          opts0.Existing[1].methods[i].Name = m

\* The existing method named m with its receiver stripped, and the
\* required method named m.
ExistingSig(m) ==
    LET e == Lookup(opts0.Existing[1].methods, m)
    IN  Mtd(m, Tail(e.In), e.Out)

RequiredSig(m) == Lookup(opts0.Inter.methods, m)

\* Missing, Satisfied or Mismatched, for a required method m when an
\* existing type is supplied.
Class(m) ==
    IF ~ExistingHas(m) THEN "Missing"
    ELSE IF SameSignature(ExistingSig(m), RequiredSig(m)) THEN "Satisfied"
    ELSE "Mismatched"

\* The diff text of a mismatched method.
DiffText(m) == Join(AllFindings(ExistingSig(m), RequiredSig(m)), "; ")

Comment0(k) == IF k \in DOMAIN opts0.Comments THEN opts0.Comments[k] ELSE ""

\* The comment of k is what the caller supplied (or still absent).
SameComment(k) ==
    /\ (k \in DOMAIN opts.Comments) <=> (k \in DOMAIN opts0.Comments)
    /\ k \in DOMAIN opts0.Comments => opts.Comments[k] = opts0.Comments[k]

\* handleExisting has matched the required methods against the existing
\* type: there was one, no configuration error, and the first call is past
\* goimpl.go:42.
ReconciliationDone ==
    /\ opts0.Existing # <<>>
    /\ opts0.ImplName = <<>> /\ opts0.PkgName = <<>>
    /\ calls > 1 \/ (calls = 1 /\ pc # "handleExisting")

\* The part of C1 about the stubs: once the template has run, a required
\* method m has a stub exactly when m is not in the caller's blacklist and
\* there is no existing type, or the existing type lacks m, or its m
\* differs from the required one; a method the existing type gets right is
\* in the blacklist and has no stub.
StubsForUnsatisfied ==
    /\ buf.stubs \subseteq RequiredNames
    /\ \A m \in RequiredNames :
          /\ (m \in buf.stubs) <=>
                /\ m \notin opts0.MethodBlacklist
                /\ opts0.Existing = <<>> \/ Class(m) # "Satisfied"
          /\ (opts0.Existing # <<>> /\ Class(m) = "Satisfied") =>
                m \in opts.MethodBlacklist /\ m \notin buf.stubs

\* The existing type gets every required method right.
AllSatisfied ==
    /\ opts0.Existing # <<>>
    /\ \A m \in RequiredNames : Class(m) = "Satisfied"

HasDiffComment(m) ==
    /\ m \in DOMAIN opts.Comments
    /\ opts.Comments[m] = IF Comment0(m) = "" THEN DiffText(m)
                          ELSE Comment0(m) \o " " \o DiffText(m)

\* The comments on names that are not required are what the caller gave.
OtherCommentsKept ==
    \A k \in ((DOMAIN opts.Comments) \cup (DOMAIN opts0.Comments))
                \ RequiredNames : SameComment(k)

\* C2 (corrected): after reconciliation the comment of a required method is
\* changed only when the method is mismatched and the caller has not
\* blacklisted it: it is then the diff comment; a mismatched method the
\* caller has blacklisted keeps its comment, as every missing and every
\* satisfied method does; and a mismatched method is not added to the
\* blacklist.
C2_OnlyMismatchedCommentsChange ==
    /\ opts0.Existing = <<>> => opts.Comments = opts0.Comments
    /\ ReconciliationDone =>
        /\ \A m \in RequiredNames :
              IF Class(m) = "Mismatched" /\ m \notin opts0.MethodBlacklist
              THEN HasDiffComment(m) /\ m \notin opts.MethodBlacklist
              ELSE SameComment(m)
        /\ \A m \in RequiredNames :
              Class(m) = "Mismatched" =>
                  ((m \in opts.MethodBlacklist) <=> (m \in opts0.MethodBlacklist))
        /\ OtherCommentsKept

\* C2 (as stated): after reconciliation every mismatched method has the
\* diff comment and is not added to the blacklist, and every missing and
\* every satisfied method has the comment the caller supplied.
C2_MismatchedCommentIsDiff ==
    ReconciliationDone =>
        \A m \in RequiredNames :
            IF Class(m) = "Mismatched"
            THEN /\ HasDiffComment(m)
                 /\ m \in opts.MethodBlacklist => m \in opts0.MethodBlacklist
            ELSE SameComment(m)

\* C2 witness: AlmostClientCodec declares Close and WriteRequest wrongly;
\* the caller has blacklisted Close and put TODO on it.  Close keeps TODO
\* and stays blacklisted; WriteRequest, which had no comment, gets its diff.
C2_Witness ==
    /\ ReconciliationDone
    /\ opts0.Existing = <<AlmostClientCodec>>
    /\ opts0.Inter = RpcClientCodec
    /\ opts0.MethodBlacklist = {"Close"}
    /\ DOMAIN opts0.Comments = {"Close"} /\ opts0.Comments["Close"] = "TODO"
    /\ DOMAIN opts.Comments = {"Close", "WriteRequest"}
    /\ opts.Comments["Close"] = "TODO"
    /\ opts.Comments["WriteRequest"] = DiffText("WriteRequest")
    /\ opts.MethodBlacklist = {"Close", "ReadResponseHeader"}

\* Existing together with a non-empty ImplName or a non-empty PkgName.
ConfigConflict ==
    /\ opts0.Existing # <<>>
    /\ opts0.ImplName # <<>> \/ opts0.PkgName # <<>>

\* C3: with Existing and a non-empty ImplName or PkgName, Generate returns
\* a configuration error before any matching: the record stays as the
\* caller built it (blacklist, comments, PkgName, ImplName), the template
\* never runs and nothing is written.
C3_ConfigErrorBeforeMatching ==
    ConfigConflict =>
        /\ opts = opts0
        /\ buf = NoBuf
        /\ sink = <<>>
        /\ pc \in {"idle", "handleExisting", "returned"}
        /\ pc = "returned" =>
              /\ errKind = "config"
              /\ err = IF opts0.ImplName # <<>>
                       THEN <<"only one of ImplName and existing should be set.">>
                       ELSE <<"only one of PkgName and existing should be set.">>

\* C3 witness: Generate has returned the PkgName error.
C3_Witness ==
    /\ pc = "returned"
    /\ opts0.Existing = <<AlmostClientCodec>>
    /\ opts0.ImplName = <<>> /\ opts0.PkgName # <<>>
    /\ "Close" \in DOMAIN opts0.Comments
    /\ err = <<"only one of PkgName and existing should be set.">>

\* C8: when Generate returns a configuration, template, parse, print or
\* import-fixing error the sink has received nothing; the sink receives
\* bytes only in the final Write, once, after all earlier steps succeeded.
C8_NoOutputOnError ==
    /\ errKind \in {"config", "template", "parse", "print", "imports"} =>
          sink = <<>>
    /\ pc # "returned" => sink = <<>>
    /\ sink # <<>> =>
          /\ Len(sink) = 1
          /\ errKind \in {"none", "write"}
          /\ sink[1].text = buf.text
          /\ sink[1].stage = IF opts.NoGoImports THEN "printed" ELSE "imports"

\* C8 witness: goimports failed, after parsing and printing succeeded, and
\* the sink is empty.
C8_Witness ==
    /\ pc = "returned"
    /\ errKind = "imports"
    /\ buf.stage = "printed"
    /\ sink = <<>>

\* C9 (as claimed): every call of Generate on the same options record has
\* the same outcome: error, assembled text, written text, blacklist and
\* comments.
C9_RetrySameOutcome ==
    \A i, j \in DOMAIN hist : hist[i] = hist[j]

\* C10 (as claimed): the error returned for a text that does not parse
\* carries the assembled text.
C10_ParseErrorCarriesText ==
    (pc = "returned" /\ errKind = "parse") =>
        \E i \in DOMAIN err : err[i] = buf.text

---------------------------------------------------------------------------
(* Properties of the single-letter candidate (checked under SpecNamer).    *)

\* The letter as described: u for the empty name, else the lowercase of the
\* first letter of the last dot-separated part, z when that part has none.
DescribedLetter(s) ==
    IF s = <<>> THEN "u"
    ELSE LET parts == SplitDot(s)
             letters == Clean(parts[Len(parts)])
         IN  IF letters = <<>> THEN "z" ELSE ToLower(letters[1])

\* A parameter type whose candidate is the single letter: neither an error
\* nor a context, and without a very short name.
SingleLetter(t) ==
    LET pn == packageAndName(StripPtrSlice(t))
    IN  /\ ~ConvertibleToError(t)
        /\ ~ConvertibleToCtx(t)
        /\ VeryShort(pn[1], lowerName(pn[2]), "") = ""

\* The names Short can give to the candidate f: f, f1, f2, ...
Suffixed(f) == {f} \cup {f \o ToString(c) : c \in 1..(NamerMaxIn + NamerMaxOut)}

\* C11 (as claimed): the receiver name computed from ImplName, and the
\* single-letter candidate of a parameter, is the lowercase of the first
\* letter of the last dot-separated part of the name, z when the name is
\* not empty and has no letter, and u when the name is empty.
C11_SingleLetterCandidate ==
    /\ (nPc = "naming" /\ nNames = <<>>) => nCur = {DescribedLetter(nImpl)}
    /\ \A k \in DOMAIN nNames :
          SingleLetter(Params(nFt)[k]) =>
              nNames[k] \in Suffixed(DescribedLetter(
                  packageAndName(StripPtrSlice(Params(nFt)[k]))[2]))

===========================================================================
